---- MODULE Spec2Model ----
(***************************************************************************)
(* A model of sockeye/layers.py and sockeye/rnn.py:                        *)
(*   - LayerNormalization (construction, moments, normalize),              *)
(*   - split_heads / combine_heads / broadcast_lengths,                    *)
(*   - MultiHeadAttention (construction and the masked softmax of `on`),   *)
(*   - get_stacked_rnn,                                                    *)
(*   - the layer-normalized LSTM cells.                                    *)
(* Numbers are exact rationals <<numerator, denominator>>; a value that    *)
(* went through rsqrt is kept as c * rsqrt(r) + o.  Symbols of the graph   *)
(* built by the cells are kept as terms (sequences headed by the operator  *)
(* name).                                                                  *)
(***************************************************************************)
EXTENDS Integers, Sequences, FiniteSets, TLC

VARIABLES
    ln,            \* the LayerNormalization unit under construction / in use
    ln_call,       \* the arguments of the last LayerNormalization call
    ln_raised,     \* the error raised by the last LayerNormalization call
    ln_variables,  \* names of the mx.sym.Variable parameters created so far
    ln_inputs,     \* the inputs of the last normalize call
    ln_out,        \* the result of the last normalize call
    hd_x,          \* split_heads / combine_heads: the input tensor
    hd_length,     \* ... the length argument
    hd_heads,      \* ... the heads argument
    hd_split,      \* ... the result of split_heads
    hd_combined,   \* ... the result of combine_heads on it
    mha,           \* the MultiHeadAttention unit
    mha_call,      \* the arguments of the last MultiHeadAttention call
    mha_raised,    \* the error raised by the last MultiHeadAttention call
    on_args,       \* the arguments of the last call of on
    on_res,        \* the symbols computed by the last call of on
    rnn_call,      \* the configuration given to the last get_stacked_rnn call
    rnn_raised,    \* the error raised by it
    rnn,           \* the SequentialRNNCell it returned
    cell,          \* a recurrent cell instance
    cell_call,     \* the arguments of the last call made on it
    cell_raised,   \* the error raised by that call
    cell_out,      \* the output and states returned by the last step
    cell_hist      \* history: the inputs of the steps since the most recent
                   \* reset, and whether the instance was ever reset

lnVars == <<ln, ln_call, ln_raised, ln_variables, ln_inputs, ln_out>>
hdVars == <<hd_x, hd_length, hd_heads, hd_split, hd_combined>>
mhaVars == <<mha, mha_call, mha_raised, on_args, on_res>>
rnnVars == <<rnn_call, rnn_raised, rnn>>
cellVars == <<cell, cell_call, cell_raised, cell_out, cell_hist>>
vars == <<lnVars, hdVars, mhaVars, rnnVars, cellVars>>

(***************************************************************************)
(* Bounds                                                                  *)
(***************************************************************************)
MaxNumHidden == 3     \* largest normalized dimension tried
MaxBatch == 2         \* largest batch size of a normalize call

(***************************************************************************)
(* Python values                                                           *)
(***************************************************************************)
None == [none |-> TRUE]
NoError == [kind |-> "NoError", message |-> <<>>]
Idle == [op |-> "idle"]

Range(s) == {s[i] : i \in 1..Len(s)}

(***************************************************************************)
(* Exact rational arithmetic (denominators positive, fractions reduced)    *)
(***************************************************************************)
Abs(x) == IF x < 0 THEN -x ELSE x

RECURSIVE GCD(_, _)
GCD(a, b) == IF b = 0 THEN a ELSE GCD(b, a % b)

Rat(n, d) ==
    LET g == GCD(Abs(n), Abs(d))
        s == IF d < 0 THEN -1 ELSE 1
    IN  <<(s * n) \div g, (s * d) \div g>>

RatInt(n) == <<n, 1>>
RatZero == <<0, 1>>
RatOne == <<1, 1>>

RatAdd(a, b) ==
    LET g == GCD(a[2], b[2])
    IN  Rat(a[1] * (b[2] \div g) + b[1] * (a[2] \div g), (a[2] \div g) * b[2])

RatNeg(a) == <<-a[1], a[2]>>
RatSub(a, b) == RatAdd(a, RatNeg(b))

RatMul(a, b) ==
    LET g1 == GCD(Abs(a[1]), b[2])
        g2 == GCD(Abs(b[1]), a[2])
    IN  Rat((a[1] \div g1) * (b[1] \div g2), (a[2] \div g2) * (b[2] \div g1))

RatInv(a) == Rat(a[2], a[1])
RatDiv(a, b) == RatMul(a, RatInv(b))
RatAbs(a) == <<Abs(a[1]), a[2]>>

\* |a| <= 1/t for a positive integer t, without multiplying by t
RatWithin(a, t) == a[1] = 0 \/ (a[2] \div Abs(a[1])) >= t

RECURSIVE RatSum(_)
RatSum(s) == IF s = <<>> THEN RatZero ELSE RatAdd(Head(s), RatSum(Tail(s)))

\* mx.sym.mean over a vector
RatMean(s) == RatDiv(RatSum(s), RatInt(Len(s)))

(***************************************************************************)
(* Tensors: a shape and the values in row-major order                      *)
(***************************************************************************)
Tensor(shape, data) == [shape |-> shape, data |-> data]
NoTensor == Tensor(<<>>, <<>>)

\* the state of a component before it is used
IdleLN ==
    /\ ln = None
    /\ ln_call = Idle
    /\ ln_raised = NoError
    /\ ln_variables = <<>>
    /\ ln_inputs = <<>>
    /\ ln_out = <<>>

IdleHD ==
    /\ hd_x = NoTensor
    /\ hd_length = 0
    /\ hd_heads = 0
    /\ hd_split = NoTensor
    /\ hd_combined = NoTensor

IdleRNN ==
    /\ rnn_call = Idle
    /\ rnn_raised = NoError
    /\ rnn = None

IdleCell ==
    /\ cell = None
    /\ cell_call = Idle
    /\ cell_raised = NoError
    /\ cell_out = None
    /\ cell_hist = [since |-> <<>>, reset |-> FALSE]

IdleMHA ==
    /\ mha = None
    /\ mha_call = Idle
    /\ mha_raised = NoError
    /\ on_args = None
    /\ on_res = None

RECURSIVE Product(_)
Product(s) == IF s = <<>> THEN 1 ELSE Head(s) * Product(Tail(s))

\* position (1-based) in the row-major data of the 0-based index idx
RECURSIVE FlatOf(_, _)
FlatOf(idx, shape) ==
    IF idx = <<>> THEN 0
    ELSE Head(idx) * Product(Tail(shape)) + FlatOf(Tail(idx), Tail(shape))

At(t, idx) == t.data[FlatOf(idx, t.shape) + 1]

\* the 0-based index of the 0-based row-major offset n
RECURSIVE IndexOf(_, _)
IndexOf(n, shape) ==
    IF shape = <<>> THEN <<>>
    ELSE LET p == Product(Tail(shape))
         IN  <<n \div p>> \o IndexOf(n % p, Tail(shape))

\* mx.sym.reshape: the output shape for the special codes 0 (copy), -1
\* (infer), -3 (merge two dimensions), -4 (split one dimension in two)
RECURSIVE ReshapeDims(_, _, _)
ReshapeDims(spec, inshape, i) ==
    IF spec = <<>> THEN <<>>
    ELSE LET c == Head(spec)
         IN  IF c = 0 THEN <<inshape[i]>> \o ReshapeDims(Tail(spec), inshape, i + 1)
             ELSE IF c = -3
             THEN <<inshape[i] * inshape[i + 1]>> \o ReshapeDims(Tail(spec), inshape, i + 2)
             ELSE IF c = -4
             THEN LET d0 == inshape[i]
                      d1 == IF spec[2] = -1 THEN d0 \div spec[3] ELSE spec[2]
                      d2 == IF spec[3] = -1 THEN d0 \div spec[2] ELSE spec[3]
                  IN  <<d1, d2>> \o ReshapeDims(SubSeq(spec, 4, Len(spec)), inshape, i + 1)
             ELSE <<c>> \o ReshapeDims(Tail(spec), inshape, i + 1)

KnownProduct(dims) == Product([k \in 1..Len(dims) |-> IF dims[k] = -1 THEN 1 ELSE dims[k]])

ReshapeShape(spec, inshape) ==
    LET dims == ReshapeDims(spec, inshape, 1)
    IN  [k \in 1..Len(dims) |->
           IF dims[k] = -1 THEN Product(inshape) \div KnownProduct(dims) ELSE dims[k]]

reshape(x, spec) == [x EXCEPT !.shape = ReshapeShape(spec, x.shape)]

\* mx.sym.transpose: output axis k is input axis axes[k] (0-based axes)
TransposeShape(shape, axes) == [k \in 1..Len(axes) |-> shape[axes[k] + 1]]

\* the input index of the output index idx
TransposeSource(idx, axes) ==
    [a \in 1..Len(axes) |-> idx[CHOOSE k \in 1..Len(axes) : axes[k] + 1 = a]]

transpose_to(x, axes, shape) ==
    [x EXCEPT !.shape = shape,
              !.data = [n \in 1..Product(shape) |->
                          At(x, TransposeSource(IndexOf(n - 1, shape), axes))]]

transpose(x, axes) == transpose_to(x, axes, TransposeShape(x.shape, axes))

(***************************************************************************)
(* split_heads, combine_heads                                              *)
(***************************************************************************)
split_heads_untransposed(x, length, heads) ==
    reshape(reshape(x, <<0, length, heads, -1>>), <<-3, length, -1>>)

split_heads(x, length, heads) ==
    reshape(transpose(reshape(x, <<0, length, heads, -1>>), <<0, 2, 1, 3>>),
            <<-3, length, -1>>)

combine_heads(x, length, heads) ==
    reshape(transpose(reshape(x, <<-4, -1, heads, length, 0>>), <<0, 2, 1, 3>>),
            <<-1, length, -3>>)

(***************************************************************************)
(* utils.check_condition: raises the configuration error when the          *)
(* condition is false.                                                     *)
(***************************************************************************)
ConfigurationError == "ConfigurationError"

check_condition(condition, error_message) ==
    IF condition THEN NoError
    ELSE [kind |-> ConfigurationError, message |-> error_message]

(***************************************************************************)
(* mx.sym.Variable with an mx.init.Constant initializer                    *)
(***************************************************************************)
Variable(name, shape, init) == [name |-> name, shape |-> shape, init |-> init]

\* the array a Constant initializer fills for a parameter of shape (n,)
ConstantFill(v) == [j \in 1..v.shape[1] |-> v.init]

(***************************************************************************)
(* LayerNormalization.__init__                                             *)
(***************************************************************************)
LN_MESSAGE == <<"Layer normalization should only be applied to layers with more than 1 neuron.">>

num_hidden_ok_offbyone(num_hidden) == num_hidden >= 1

num_hidden_ok(num_hidden) == num_hidden > 1

LayerNormalization_check(num_hidden) ==
    check_condition(num_hidden_ok(num_hidden), LN_MESSAGE)

\* the object built when the check passes; scale / shift are the given
\* symbols, or fresh variables when None is given
LayerNormalization_new(num_hidden, prefix, scale, shift, scale_init, shift_init) ==
    [num_hidden |-> num_hidden,
     prefix |-> prefix,
     scale |-> IF scale # None THEN scale
               ELSE Variable(<<prefix, "_gamma">>, <<num_hidden>>, scale_init),
     shift |-> IF shift # None THEN shift
               ELSE Variable(<<prefix, "_beta">>, <<num_hidden>>, shift_init)]

\* names of the variables the constructor itself creates
LayerNormalization_created(prefix, scale, shift) ==
    (IF scale # None THEN <<>> ELSE << <<prefix, "_gamma">> >>)
    \o (IF shift # None THEN <<>> ELSE << <<prefix, "_beta">> >>)

LayerNormalization_init(num_hidden, scale_init, shift_init) ==
    LET err == LayerNormalization_check(num_hidden)
    IN  /\ ln_call = Idle
        /\ ln_call' = [op |-> "LayerNormalization", num_hidden |-> num_hidden,
                       scale_init |-> scale_init, shift_init |-> shift_init]
        /\ ln_raised' = err
        /\ IF err # NoError
           THEN UNCHANGED <<ln, ln_variables>>
           ELSE /\ ln' = LayerNormalization_new(num_hidden, "ln", None, None,
                                                scale_init, shift_init)
                /\ ln_variables' = ln_variables
                                   \o LayerNormalization_created("ln", None, None)
        /\ UNCHANGED <<ln_inputs, ln_out>>
        /\ UNCHANGED <<hdVars, mhaVars, rnnVars, cellVars>>

(***************************************************************************)
(* LayerNormalization.moments and LayerNormalization.normalize             *)
(***************************************************************************)
EPS == <<1, 100000>>    \* eps: float = 0.00001

\* mx.sym.mean(data, axis=1, keepdims=True)
mean_axis1(data) == [i \in 1..Len(data) |-> RatMean(data[i])]

\* mx.sym.square
square(data) == [i \in 1..Len(data) |-> [j \in 1..Len(data[i]) |-> RatMul(data[i][j], data[i][j])]]

\* mx.sym.broadcast_minus(lhs, rhs) with rhs of shape (batch, 1)
broadcast_minus(lhs, rhs) ==
    [i \in 1..Len(lhs) |-> [j \in 1..Len(lhs[i]) |-> RatSub(lhs[i][j], rhs[i])]]

moments_var_uncentred(inputs, mean) == mean_axis1(square(inputs))

moments_var(inputs, mean) == mean_axis1(square(broadcast_minus(inputs, mean)))

moments_of(inputs, mean) == <<mean, moments_var(inputs, mean)>>

moments(inputs) == moments_of(inputs, mean_axis1(inputs))

\* a value c * rsqrt(r) + o
Surd(c, r, o) == [c |-> c, r |-> r, o |-> o]

\* broadcast_mul(inputs_norm, rsqrt(var + eps)) with var of shape (batch, 1)
mul_rsqrt(data, radicand) ==
    [i \in 1..Len(data) |-> [j \in 1..Len(data[i]) |-> Surd(data[i][j], radicand[i], RatZero)]]

var_plus_eps(var, eps) == [i \in 1..Len(var) |-> RatAdd(var[i], eps)]

\* broadcast_mul(inputs_norm, self.scale) with scale of shape (num_hidden,)
broadcast_mul_scale(data, scale) ==
    [i \in 1..Len(data) |->
       [j \in 1..Len(data[i]) |->
          Surd(RatMul(data[i][j].c, scale[j]), data[i][j].r, RatMul(data[i][j].o, scale[j]))]]

\* broadcast_add(inputs_norm, self.shift) with shift of shape (num_hidden,)
broadcast_add_shift(data, shift) ==
    [i \in 1..Len(data) |->
       [j \in 1..Len(data[i]) |->
          Surd(data[i][j].c, data[i][j].r, RatAdd(data[i][j].o, shift[j]))]]

normalize_of(self, inputs, mean, var, eps) ==
    broadcast_add_shift(
        broadcast_mul_scale(
            mul_rsqrt(broadcast_minus(inputs, mean), var_plus_eps(var, eps)),
            ConstantFill(self.scale)),
        ConstantFill(self.shift))

normalize_mv(self, inputs, mv, eps) == normalize_of(self, inputs, mv[1], mv[2], eps)

normalize(self, inputs, eps) == normalize_mv(self, inputs, moments(inputs), eps)

\* the input values tried: 0, 0.1 and 1
InputValues == {<<0, 1>>, <<1, 10>>, <<1, 1>>}

\* rows of h values: all equal to b except the first, which is a
Rows(h) == {[j \in 1..h |-> IF j = 1 THEN a ELSE b] : a \in InputValues, b \in InputValues}

Normalize(inputs) ==
    /\ ln # None
    /\ ln_call.op = "LayerNormalization"
    /\ ln_call' = [op |-> "normalize"]
    /\ ln_inputs' = inputs
    /\ ln_out' = normalize(ln, inputs, EPS)
    /\ UNCHANGED <<ln, ln_raised, ln_variables>>
    /\ UNCHANGED <<hdVars, mhaVars, rnnVars, cellVars>>

(***************************************************************************)
(* broadcast_lengths                                                       *)
(***************************************************************************)
\* mx.sym.expand_dims
expand_dims(x, axis) ==
    Tensor(SubSeq(x.shape, 1, axis) \o <<1>> \o SubSeq(x.shape, axis + 1, Len(x.shape)), x.data)

\* mx.sym.broadcast_to for a two-dimensional x; 0 keeps a dimension
broadcast_shape(x, shape) == [k \in 1..2 |-> IF shape[k] = 0 THEN x.shape[k] ELSE shape[k]]

broadcast_to_shape(x, shape) ==
    Tensor(shape,
           [n \in 1..Product(shape) |->
              LET idx == IndexOf(n - 1, shape)
              IN  At(x, [k \in 1..2 |-> IF x.shape[k] = 1 THEN 0 ELSE idx[k]])])

broadcast_to(x, shape) == broadcast_to_shape(x, broadcast_shape(x, shape))

broadcast_lengths_tiled(x, heads) ==
    reshape(broadcast_to(expand_dims(x, 0), <<heads, 0>>), <<-3>>)

broadcast_lengths(x, heads) ==
    reshape(broadcast_to(expand_dims(x, 1), <<0, heads>>), <<-3>>)

(***************************************************************************)
(* MultiHeadAttention.__init__                                             *)
(***************************************************************************)
\* "%d" for a non-negative integer: its decimal digits
RECURSIVE FormatD(_)
FormatD(n) == IF n < 10 THEN <<n>> ELSE FormatD(n \div 10) \o <<n % 10>>

MHA_MESSAGE(heads, depth_att) ==
    <<"Number of heads (", FormatD(heads), ") must divide attention depth (",
      FormatD(depth_att), ")">>

heads_divide_swapped(depth_att, heads) == heads % depth_att = 0

heads_divide(depth_att, heads) == depth_att % heads = 0

MultiHeadAttention_check(depth_att, heads) ==
    check_condition(heads_divide(depth_att, heads), MHA_MESSAGE(heads, depth_att))

MultiHeadAttention_new(prefix, depth_att, heads, depth_out, dropout) ==
    [prefix |-> prefix,
     depth |-> depth_att,
     heads |-> heads,
     depth_out |-> depth_out,
     dropout |-> dropout,
     depth_per_head |-> depth_att \div heads,
     w_i2h |-> <<prefix, "i2h_weight">>,
     b_i2h |-> <<prefix, "i2h_bias">>,
     w_h2o |-> <<prefix, "h2o_weight">>,
     b_h2o |-> <<prefix, "h2o_bias">>]

MultiHeadAttention_init(depth_att, heads, depth_out, dropout) ==
    LET err == MultiHeadAttention_check(depth_att, heads)
    IN  /\ mha_call = Idle
        /\ mha_call' = [op |-> "MultiHeadAttention", depth_att |-> depth_att,
                        heads |-> heads, depth_out |-> depth_out, dropout |-> dropout]
        /\ mha_raised' = err
        /\ mha' = IF err # NoError THEN mha
                  ELSE MultiHeadAttention_new("att_", depth_att, heads, depth_out, dropout)
        /\ UNCHANGED <<on_args, on_res>>
        /\ UNCHANGED <<lnVars, hdVars, rnnVars, cellVars>>

(***************************************************************************)
(* The operators of MultiHeadAttention.on                                  *)
(***************************************************************************)
RECURSIVE IntSum(_)
IntSum(s) == IF s = <<>> THEN 0 ELSE Head(s) + IntSum(Tail(s))

\* mx.sym.FullyConnected: data (n, in), weight (num_hidden, in), bias (num_hidden)
FullyConnected(data, weight, bias, num_hidden) ==
    Tensor(<<data.shape[1], num_hidden>>,
           [n \in 1..(data.shape[1] * num_hidden) |->
              LET i == (n - 1) \div num_hidden
                  o == (n - 1) % num_hidden
              IN  IntSum([c \in 1..data.shape[2] |->
                            At(data, <<i, c - 1>>) * At(weight, <<o, c - 1>>)])
                  + At(bias, <<o>>)])

\* output c (0-based) of mx.sym.split(data, num_outputs, axis=2)
split_axis2_shape(data, num_outputs) ==
    <<data.shape[1], data.shape[2], data.shape[3] \div num_outputs>>

split_axis2_to(data, c, shape) ==
    Tensor(shape,
           [n \in 1..Product(shape) |->
              LET idx == IndexOf(n - 1, shape)
              IN  At(data, <<idx[1], idx[2], c * shape[3] + idx[3]>>)])

split_axis2(data, num_outputs, c) ==
    split_axis2_to(data, c, split_axis2_shape(data, num_outputs))

\* the square root of a perfect square
ISqrt(n) == CHOOSE r \in 1..n : r * r = n

\* a tensor whose values are data[n] / den
Scaled(shape, data, den) == [shape |-> shape, data |-> data, den |-> den]

\* q *= depth_per_head ** -0.5
scale_query(q, depth_per_head) == Scaled(q.shape, q.data, ISqrt(depth_per_head))

\* mx.sym.batch_dot(lhs, rhs, transpose_b=True): lhs (b, n, d) scaled,
\* rhs (b, m, d) integer
batch_dot_T_to(lhs, rhs, shape) ==
    Scaled(shape,
           [n \in 1..Product(shape) |->
              LET idx == IndexOf(n - 1, shape)
              IN  IntSum([d \in 1..lhs.shape[3] |->
                            At(lhs, <<idx[1], idx[2], d - 1>>)
                            * At(rhs, <<idx[1], idx[3], d - 1>>)])],
           lhs.den)

batch_dot_T(lhs, rhs) == batch_dot_T_to(lhs, rhs, <<lhs.shape[1], lhs.shape[2], rhs.shape[2]>>)

MASK_VALUE == -99999999

\* mx.sym.SequenceMask(data, use_sequence_length=True, sequence_length, value):
\* data (time, batch, rest); positions at or beyond the length of their batch
\* entry are set to value
SequenceMask(data, sequence_length, value) ==
    [data EXCEPT !.data = [n \in 1..Len(data.data) |->
                             LET idx == IndexOf(n - 1, data.shape)
                             IN  IF idx[1] >= At(sequence_length, <<idx[2]>>)
                                 THEN value * data.den ELSE data.data[n]]]

\* exp(-n/2) in units of 1e-8, rounded down
EXP_TABLE ==
    <<100000000, 60653065, 36787944, 22313016, 13533528, 8208499, 4978706,
      3019738, 1831563, 1110899, 673794, 408677, 247875, 150343, 91188, 55308,
      33546, 20346, 12340, 7485, 4539, 2753, 1670, 1013, 614, 372, 226, 137,
      83, 50, 30, 18, 11, 6, 4, 2, 1>>

\* exp(-d / den) for d >= 0, d / den a multiple of 1/2
ExpNeg(d, den) ==
    IF d >= Len(EXP_TABLE) * den THEN 0
    ELSE LET n == (2 * d) \div den
         IN  IF n + 1 > Len(EXP_TABLE) THEN 0 ELSE EXP_TABLE[n + 1]

IntMax(s) == CHOOSE m \in Range(s) : \A x \in Range(s) : x <= m

\* mx.sym.softmax(logits, axis=-1) of a (b, n, m) tensor: every probability
\* is a pair <<e, z>> standing for e / z, the exponentials being taken after
\* subtracting the largest logit of the row
SoftmaxExps(row, m, den) == [k \in 1..Len(row) |-> ExpNeg(m - row[k], den)]

SoftmaxOver(e, z) == [k \in 1..Len(e) |-> <<e[k], z>>]

SoftmaxOf(e) == SoftmaxOver(e, IntSum(e))

SoftmaxRow(row, den) == SoftmaxOf(SoftmaxExps(row, IntMax(row), den))

LastAxisRow(t, r) ==
    LET w == t.shape[Len(t.shape)] IN SubSeq(t.data, r * w + 1, (r + 1) * w)

softmax_rows(t, rows) ==
    Tensor(t.shape,
           [n \in 1..Len(t.data) |->
              rows[((n - 1) \div t.shape[3]) + 1][((n - 1) % t.shape[3]) + 1]])

softmax(t) ==
    softmax_rows(t, [r \in 1..(t.shape[1] * t.shape[2]) |->
                       SoftmaxRow(LastAxisRow(t, r - 1), t.den)])

\* mx.sym.batch_dot(lhs, rhs): lhs (b, n, m) probabilities, rhs (b, m, d)
\* integer; every value is a pair <<numerator, denominator>>
batch_dot_to(lhs, rhs, shape) ==
    Tensor(shape,
           [n \in 1..Product(shape) |->
              LET idx == IndexOf(n - 1, shape)
              IN  <<IntSum([k \in 1..lhs.shape[3] |->
                              At(lhs, <<idx[1], idx[2], k - 1>>)[1]
                              * At(rhs, <<idx[1], k - 1, idx[3]>>)]),
                    At(lhs, <<idx[1], idx[2], 0>>)[2]>>])

batch_dot(lhs, rhs) == batch_dot_to(lhs, rhs, <<lhs.shape[1], lhs.shape[2], rhs.shape[3]>>)

(***************************************************************************)
(* MultiHeadAttention.on                                                   *)
(***************************************************************************)
\* the second projection applied whatever the two depths are
on_output_always_projects(self, length, contexts) ==
    [op |-> "FullyConnected", data |-> reshape(contexts, <<-3, -1>>),
     weight |-> self.w_h2o, bias |-> self.b_h2o, num_hidden |-> self.depth_out,
     shape |-> ReshapeShape(<<-1, length, self.depth_out>>,
                            <<contexts.shape[1] * contexts.shape[2], self.depth_out>>)]

\* lines 206-226: softmax, dropout, contexts, combine_heads, second projection.
\* Dropout is the identity outside training; the second projection is kept
\* as a symbol with its shape.
on_output(self, length, contexts) ==
    IF self.depth_out # self.depth
    THEN [op |-> "FullyConnected", data |-> reshape(contexts, <<-3, -1>>),
          weight |-> self.w_h2o, bias |-> self.b_h2o, num_hidden |-> self.depth_out,
          shape |-> ReshapeShape(<<-1, length, self.depth_out>>,
                                 <<contexts.shape[1] * contexts.shape[2], self.depth_out>>)]
    ELSE [op |-> "contexts", data |-> contexts, shape |-> contexts.shape]

on_probs(self, length, raw, masked, probs, v) ==
    [logits |-> raw,
     masked |-> masked,
     probs |-> probs,
     dropout |-> self.dropout[1] > 0,
     out |-> on_output(self, length, combine_heads(batch_dot(probs, v), length, self.heads))]

on_masked(self, length, raw, masked, v) ==
    on_probs(self, length, raw, masked, softmax(masked), v)

\* the mask applied along the query axis instead of the key axis
on_logits_query_axis(self, inputs_length, length, logits, v) ==
    on_masked(self, length, logits,
              transpose(SequenceMask(transpose(logits, <<1, 0, 2>>),
                                     broadcast_lengths(inputs_length, self.heads),
                                     MASK_VALUE),
                        <<1, 0, 2>>),
              v)

\* lines 196-205: logits, transpose, SequenceMask, transpose
on_logits(self, inputs_length, length, logits, v) ==
    on_masked(self, length, logits,
              transpose(SequenceMask(transpose(logits, <<2, 0, 1>>),
                                     broadcast_lengths(inputs_length, self.heads),
                                     MASK_VALUE),
                        <<1, 2, 0>>),
              v)

\* lines 184-196: split, scale, split_heads, batch_dot
on_combined(self, inputs_length, length, combined) ==
    on_logits(self, inputs_length, length,
              batch_dot_T(split_heads(scale_query(split_axis2(combined, 3, 0),
                                                  self.depth_per_head),
                                      length, self.heads),
                          split_heads(split_axis2(combined, 3, 1), length, self.heads)),
              split_heads(split_axis2(combined, 3, 2), length, self.heads))

\* lines 167-179: the combined projection
on(self, inputs, inputs_length, length, w_i2h, b_i2h) ==
    on_combined(self, inputs_length, length,
                reshape(FullyConnected(reshape(inputs, <<-3, -1>>), w_i2h, b_i2h,
                                       self.depth * 3),
                        <<-1, length, self.depth * 3>>))

On(inputs, inputs_length, length, w_i2h, b_i2h) ==
    /\ mha # None
    /\ mha_call.op = "MultiHeadAttention"
    /\ mha_call' = [op |-> "on"]
    /\ on_args' = [inputs |-> inputs, inputs_length |-> inputs_length, length |-> length,
                   w_i2h |-> w_i2h, b_i2h |-> b_i2h]
    /\ on_res' = on(mha, inputs, inputs_length, length, w_i2h, b_i2h)
    /\ UNCHANGED <<mha, mha_raised>>
    /\ UNCHANGED <<lnVars, hdVars, rnnVars, cellVars>>

(***************************************************************************)
(* The recurrent cells: construction                                       *)
(***************************************************************************)
LSTM_TYPE == "lstm"
LNLSTM_TYPE == "lnlstm"
LNGLSTM_TYPE == "lnglstm"
GRU_TYPE == "gru"
LNGRU_TYPE == "lngru"
LNGGRU_TYPE == "lnggru"

NotImplementedError == "NotImplementedError"

\* the first error of a sequence of checks made one after the other
FirstError(errs) ==
    IF \A i \in 1..Len(errs) : errs[i] = NoError THEN NoError
    ELSE errs[CHOOSE i \in 1..Len(errs) :
                 errs[i] # NoError /\ \A j \in 1..(i - 1) : errs[j] = NoError]

\* self.params.get(name, shape=..., init=mx.init.Constant(value=...))
params_get(prefix, name, shape, init) == Variable(<<prefix, name>>, shape, init)

\* mx.rnn.LSTMCell.__init__ / mx.rnn.GRUCell.__init__: the base cell with its
\* projection parameters and the call counter of BaseRNNCell
BaseCell(type, gates, num_hidden, prefix) ==
    [type |-> type,
     num_hidden |-> num_hidden,
     prefix |-> prefix,
     gates |-> gates,
     counter |-> -1,
     iW |-> <<prefix, "i2h_weight">>,
     iB |-> <<prefix, "i2h_bias">>,
     hW |-> <<prefix, "h2h_weight">>,
     hB |-> <<prefix, "h2h_bias">>]

Raise(err) == [raised |-> err, cell |-> None]
Return(made) == [raised |-> NoError, cell |-> made]

\* LayerNormalization(num_hidden, prefix, scale=params.get(scale_name, ...),
\*                    shift=params.get(shift_name, ...))
NormUnit(cell_prefix, num_hidden, prefix, scale_name, scale_init, shift_name, shift_init) ==
    LayerNormalization_new(num_hidden, prefix,
                           params_get(cell_prefix, scale_name, <<num_hidden>>, scale_init),
                           params_get(cell_prefix, shift_name, <<num_hidden>>, shift_init),
                           RatOne, RatZero)

\* mx.rnn.LSTMCell(num_hidden, prefix, forget_bias)
LSTMCell_init(num_hidden, prefix, forget_bias) ==
    Return([type |-> LSTM_TYPE, forget_bias |-> forget_bias]
           @@ BaseCell(LSTM_TYPE, 4, num_hidden, prefix))

\* mx.rnn.GRUCell(num_hidden, prefix)
GRUCell_init(num_hidden, prefix) == Return(BaseCell(GRU_TYPE, 3, num_hidden, prefix))

\* LayerNormLSTMCell.__init__
LayerNormLSTMCell_init(num_hidden, prefix, forget_bias, norm_scale, norm_shift) ==
    LET err == FirstError(<<LayerNormalization_check(num_hidden * 4),
                            LayerNormalization_check(num_hidden * 4),
                            LayerNormalization_check(num_hidden)>>)
    IN  IF err # NoError THEN Raise(err)
        ELSE Return([type |-> LNLSTM_TYPE,
                     forget_bias |-> forget_bias,
                     iN |-> NormUnit(prefix, num_hidden * 4, <<prefix, "i2h">>,
                                     "i2h_scale", norm_scale, "i2h_shift", norm_shift),
                     hN |-> NormUnit(prefix, num_hidden * 4, <<prefix, "h2h">>,
                                     "h2h_scale", norm_scale, "h2h_shift", norm_shift),
                     cN |-> NormUnit(prefix, num_hidden, <<prefix, "c">>,
                                     "c_scale", norm_scale, "c_shift", norm_shift),
                     shape_fix |-> None]
                    @@ BaseCell(LNLSTM_TYPE, 4, num_hidden, prefix))

\* the loop body of LayerNormPerGateLSTMCell.__init__: the variable named
\* <name>_shift is passed as scale, the variable named <name>_scale as shift
PerGateLSTM_unit(num_hidden, prefix, name, forget_bias, norm_scale, norm_shift) ==
    NormUnit(prefix, num_hidden, <<prefix, name>>,
             name \o "_shift", norm_shift,
             name \o "_scale", IF name # "f" THEN norm_scale ELSE forget_bias)

LSTM_GATE_NAMES == <<"i", "f", "c", "o", "s">>

\* LayerNormPerGateLSTMCell.__init__
LayerNormPerGateLSTMCell_init(num_hidden, prefix, forget_bias, norm_scale, norm_shift) ==
    LET err == FirstError([k \in 1..Len(LSTM_GATE_NAMES) |->
                             LayerNormalization_check(num_hidden)])
    IN  IF err # NoError THEN Raise(err)
        ELSE Return([type |-> LNGLSTM_TYPE,
                     forget_bias |-> forget_bias,
                     norm_layers |-> [k \in 1..Len(LSTM_GATE_NAMES) |->
                                        PerGateLSTM_unit(num_hidden, prefix,
                                                         LSTM_GATE_NAMES[k], forget_bias,
                                                         norm_scale, norm_shift)]]
                    @@ BaseCell(LNGLSTM_TYPE, 4, num_hidden, prefix))

\* LayerNormGRUCell.__init__
LayerNormGRUCell_init(num_hidden, prefix, norm_scale, norm_shift) ==
    LET err == FirstError(<<LayerNormalization_check(num_hidden * 3),
                            LayerNormalization_check(num_hidden * 3)>>)
    IN  IF err # NoError THEN Raise(err)
        ELSE Return([type |-> LNGRU_TYPE,
                     iN |-> NormUnit(prefix, num_hidden * 3, <<prefix, "i2h">>,
                                     "i2h_scale", norm_scale, "i2h_shift", norm_shift),
                     hN |-> NormUnit(prefix, num_hidden * 3, <<prefix, "h2h">>,
                                     "h2h_scale", norm_scale, "h2h_shift", norm_shift),
                     shape_fix |-> None]
                    @@ BaseCell(LNGRU_TYPE, 3, num_hidden, prefix))

GRU_GATE_NAMES == <<"r", "z", "o">>

\* the loop body of LayerNormPerGateGRUCell.__init__
PerGateGRU_unit(num_hidden, prefix, name, norm_scale, norm_shift) ==
    NormUnit(prefix, num_hidden, <<prefix, name>>,
             name \o "_shift", norm_shift,
             name \o "_scale", norm_scale)

\* LayerNormPerGateGRUCell.__init__
LayerNormPerGateGRUCell_init(num_hidden, prefix, norm_scale, norm_shift) ==
    LET err == FirstError([k \in 1..Len(GRU_GATE_NAMES) |->
                             LayerNormalization_check(num_hidden)])
    IN  IF err # NoError THEN Raise(err)
        ELSE Return([type |-> LNGGRU_TYPE,
                     norm_layers |-> [k \in 1..Len(GRU_GATE_NAMES) |->
                                        PerGateGRU_unit(num_hidden, prefix,
                                                        GRU_GATE_NAMES[k],
                                                        norm_scale, norm_shift)]]
                    @@ BaseCell(LNGGRU_TYPE, 3, num_hidden, prefix))

(***************************************************************************)
(* get_stacked_rnn                                                         *)
(***************************************************************************)
RNNConfig(cell_type, num_hidden, num_layers, dropout, residual, forget_bias) ==
    [cell_type |-> cell_type, num_hidden |-> num_hidden, num_layers |-> num_layers,
     dropout |-> dropout, residual |-> residual, forget_bias |-> forget_bias]

\* cell_prefix = "%sl%d_" % (prefix, layer)
cell_prefix_of(prefix, layer) == <<prefix, "l", FormatD(layer), "_">>

\* an unknown cell type becomes a plain LSTM cell
stack_cell_default_lstm(config, cell_prefix) ==
    IF config.cell_type = LNLSTM_TYPE
    THEN LayerNormLSTMCell_init(config.num_hidden, cell_prefix, config.forget_bias,
                                RatOne, RatZero)
    ELSE IF config.cell_type = LNGLSTM_TYPE
    THEN LayerNormPerGateLSTMCell_init(config.num_hidden, cell_prefix, config.forget_bias,
                                       RatOne, RatZero)
    ELSE IF config.cell_type = GRU_TYPE
    THEN GRUCell_init(config.num_hidden, cell_prefix)
    ELSE IF config.cell_type = LNGRU_TYPE
    THEN LayerNormGRUCell_init(config.num_hidden, cell_prefix, RatOne, RatZero)
    ELSE IF config.cell_type = LNGGRU_TYPE
    THEN LayerNormPerGateGRUCell_init(config.num_hidden, cell_prefix, RatOne, RatZero)
    ELSE LSTMCell_init(config.num_hidden, cell_prefix, config.forget_bias)

\* lines 65-79: the cell of one layer, or the error raised
stack_cell(config, cell_prefix) ==
    IF config.cell_type = LSTM_TYPE
    THEN LSTMCell_init(config.num_hidden, cell_prefix, config.forget_bias)
    ELSE IF config.cell_type = LNLSTM_TYPE
    THEN LayerNormLSTMCell_init(config.num_hidden, cell_prefix, config.forget_bias,
                                RatOne, RatZero)
    ELSE IF config.cell_type = LNGLSTM_TYPE
    THEN LayerNormPerGateLSTMCell_init(config.num_hidden, cell_prefix, config.forget_bias,
                                       RatOne, RatZero)
    ELSE IF config.cell_type = GRU_TYPE
    THEN GRUCell_init(config.num_hidden, cell_prefix)
    ELSE IF config.cell_type = LNGRU_TYPE
    THEN LayerNormGRUCell_init(config.num_hidden, cell_prefix, RatOne, RatZero)
    ELSE IF config.cell_type = LNGGRU_TYPE
    THEN LayerNormPerGateGRUCell_init(config.num_hidden, cell_prefix, RatOne, RatZero)
    ELSE Raise([kind |-> NotImplementedError, message |-> <<>>])

\* every layer is wrapped
wrap_residual_every_layer(config, layer) == config.residual

\* line 80
wrap_residual(config, layer) == config.residual /\ layer > 0

ResidualCell(base_cell) == [type |-> "ResidualCell", base_cell |-> base_cell]
DropoutCell(dropout, prefix) == [type |-> "DropoutCell", dropout |-> dropout, prefix |-> prefix]

\* the residual wrapper applied at every layer when residual is enabled
stack_layer_wraps_every_layer(config, layer, layer_cell, cell_prefix) ==
    <<IF config.residual THEN ResidualCell(layer_cell) ELSE layer_cell>>
    \o (IF config.dropout[1] > 0
        THEN <<DropoutCell(config.dropout, cell_prefix \o <<"_dropout">>)>>
        ELSE <<>>)

\* lines 80-86: what one layer adds to the stack
stack_layer(config, layer, layer_cell, cell_prefix) ==
    <<IF wrap_residual(config, layer) THEN ResidualCell(layer_cell) ELSE layer_cell>>
    \o (IF config.dropout[1] > 0
        THEN <<DropoutCell(config.dropout, cell_prefix \o <<"_dropout">>)>>
        ELSE <<>>)

\* the loop of lines 61-86 from layer on, rnn being the cells added so far
RECURSIVE stack_from(_, _, _, _)
stack_from(config, prefix, layer, cells) ==
    IF layer >= config.num_layers THEN [raised |-> NoError, rnn |-> cells]
    ELSE LET made == stack_cell(config, cell_prefix_of(prefix, layer))
         IN  IF made.raised # NoError THEN [raised |-> made.raised, rnn |-> None]
             ELSE stack_from(config, prefix, layer + 1,
                             cells \o stack_layer(config, layer, made.cell,
                                                  cell_prefix_of(prefix, layer)))

get_stacked_rnn(config, prefix) == stack_from(config, prefix, 0, <<>>)

GetStackedRnn(config) ==
    LET res == get_stacked_rnn(config, "rnn_")
    IN  /\ rnn_call = Idle
        /\ rnn_call' = [op |-> "get_stacked_rnn", config |-> config]
        /\ rnn_raised' = res.raised
        /\ rnn' = res.rnn
        /\ UNCHANGED <<lnVars, hdVars, mhaVars, cellVars>>

(***************************************************************************)
(* Symbols of the computation graph built by a cell step                   *)
(***************************************************************************)
SymVar(name) == [op |-> "Variable", name |-> name]

SymFullyConnected(data, weight, bias, num_hidden, name) ==
    [op |-> "FullyConnected", data |-> data, weight |-> weight, bias |-> bias,
     num_hidden |-> num_hidden, name |-> name]

SymZerosLike(data) == [op |-> "zeros_like", data |-> data]

\* lhs + rhs, mx.sym._internal._plus(lhs, rhs, name)
SymPlus(lhs, rhs, name) == [op |-> "_plus", lhs |-> lhs, rhs |-> rhs, name |-> name]

\* lhs * rhs, mx.sym._internal._mul(lhs, rhs, name)
SymMul(lhs, rhs, name) == [op |-> "_mul", lhs |-> lhs, rhs |-> rhs, name |-> name]

\* output index (0-based) of mx.sym.split(data, num_outputs, axis, name)
SymSplit(data, num_outputs, axis, name, index) ==
    [op |-> "split", data |-> data, num_outputs |-> num_outputs, axis |-> axis,
     name |-> name, index |-> index]

SymActivation(data, act_type, name) ==
    [op |-> "Activation", data |-> data, act_type |-> act_type, name |-> name]

\* LayerNormalization.normalize(inputs) of a unit, as one symbol
SymNormalize(unit, inputs) ==
    [op |-> "normalize", scale |-> unit.scale, shift |-> unit.shift,
     prefix |-> unit.prefix, data |-> inputs]

NoName == <<>>

(***************************************************************************)
(* LayerNormLSTMCell.__call__                                              *)
(***************************************************************************)
AssertionError == "AssertionError"

\* name = '%st%d_' % (self._prefix, self._counter)
step_name(prefix, counter) == <<prefix, "t", FormatD(counter), "_">>

\* after the first step the projection itself is kept instead of zeros
lnlstm_shape_fix_not_zero(self, counter, i2h) ==
    IF counter = 0 THEN SymZerosLike(i2h) ELSE i2h

\* lines 137-140: the placeholder after this step
lnlstm_shape_fix(self, counter, i2h) ==
    IF counter = 0 THEN SymZerosLike(i2h) ELSE self.shape_fix

\* the gates in the order candidate, forget, in, out
lnlstm_gate_order_swapped == [in_gate |-> 2, forget_gate |-> 1, in_transform |-> 0, out_gate |-> 3]

\* lines 145-148: the outputs of the split
lnlstm_gate_order == [in_gate |-> 0, forget_gate |-> 1, in_transform |-> 2, out_gate |-> 3]

\* lines 144-163
lnlstm_outputs(self, states, name, i2h, h2h, shape_fix) ==
    LET gates == SymPlus(SymNormalize(self.iN, i2h),
                         SymNormalize(self.hN, SymPlus(shape_fix, h2h, NoName)),
                         NoName)
        slice(k) == SymSplit(gates, 4, 1, name \o <<"slice">>, k)
        in_gate == SymActivation(slice(lnlstm_gate_order.in_gate), "sigmoid",
                                 name \o <<"i">>)
        forget_gate == SymActivation(slice(lnlstm_gate_order.forget_gate), "sigmoid",
                                     name \o <<"f">>)
        in_transform == SymActivation(slice(lnlstm_gate_order.in_transform), "tanh",
                                      name \o <<"c">>)
        out_gate == SymActivation(slice(lnlstm_gate_order.out_gate), "sigmoid",
                                  name \o <<"o">>)
        next_c == SymPlus(SymMul(forget_gate, states[2], NoName),
                          SymMul(in_gate, in_transform, NoName),
                          name \o <<"state">>)
        next_h == SymMul(out_gate,
                         SymActivation(SymNormalize(self.cN, next_c), "tanh", NoName),
                         name \o <<"out">>)
    IN  [output |-> next_h, states |-> <<next_h, next_c>>]

\* lines 132-143
lnlstm_step(self, inputs, states, counter, name) ==
    LET i2h == SymFullyConnected(inputs, self.iW, self.iB, self.num_hidden * 4,
                                 name \o <<"i2h">>)
        h2h == SymFullyConnected(states[1], self.hW, self.hB, self.num_hidden * 4,
                                 name \o <<"h2h">>)
        shape_fix == lnlstm_shape_fix(self, counter, i2h)
    IN  IF counter # 0 /\ self.shape_fix = None
        THEN [raised |-> [kind |-> AssertionError, message |-> <<>>],
              cell |-> [self EXCEPT !.counter = counter],
              out |-> None]
        ELSE [raised |-> NoError,
              cell |-> [self EXCEPT !.counter = counter, !.shape_fix = shape_fix],
              out |-> lnlstm_outputs(self, states, name, i2h, h2h, shape_fix)]

LayerNormLSTMCell_call(self, inputs, states) ==
    lnlstm_step(self, inputs, states, self.counter + 1,
                step_name(self.prefix, self.counter + 1))

(***************************************************************************)
(* LayerNormGRUCell.__call__                                               *)
(***************************************************************************)
\* scalar - x, the symbol of (1. - x)
SymRMinusScalar(scalar, data) == [op |-> "_rminus_scalar", scalar |-> scalar, data |-> data]

\* a new placeholder at every step
lngru_shape_fix_every_step(self, counter, i2h) == SymZerosLike(i2h)

\* lines 280-283: the placeholder after this step
lngru_shape_fix(self, counter, i2h) ==
    IF counter = 0 THEN SymZerosLike(i2h) ELSE self.shape_fix

\* the reset gate applied to the whole candidate pre-activation
lngru_candidate_reset_all(i2h, reset_gate, h2h) ==
    SymMul(reset_gate, SymPlus(i2h, h2h, NoName), NoName)

\* line 296: i2h + reset_gate * h2h
lngru_candidate(i2h, reset_gate, h2h) ==
    SymPlus(i2h, SymMul(reset_gate, h2h, NoName), NoName)

\* lines 285-302, i2h and h2h being the two projections
lngru_outputs(self, prev_state_h, name, i2h, h2h, shape_fix) ==
    LET i2h_n == SymNormalize(self.iN, i2h)
        h2h_n == SymNormalize(self.hN, SymPlus(shape_fix, h2h, NoName))
        i2h_slice(k) == SymSplit(i2h_n, 3, 1, name \o <<"_i2h_slice">>, k)
        h2h_slice(k) == SymSplit(h2h_n, 3, 1, name \o <<"_h2h_slice">>, k)
        reset_gate == SymActivation(SymPlus(i2h_slice(0), h2h_slice(0), NoName), "sigmoid",
                                    name \o <<"_r_act">>)
        update_gate == SymActivation(SymPlus(i2h_slice(1), h2h_slice(1), NoName), "sigmoid",
                                     name \o <<"_z_act">>)
        next_h_tmp == SymActivation(lngru_candidate(i2h_slice(2), reset_gate, h2h_slice(2)),
                                    "tanh", name \o <<"_h_act">>)
        next_h == SymPlus(SymMul(SymRMinusScalar(1, update_gate), next_h_tmp, NoName),
                          SymMul(update_gate, prev_state_h, NoName),
                          name \o <<"out">>)
    IN  [output |-> next_h, states |-> <<next_h>>]

\* lines 264-283
lngru_step(self, inputs, prev_state_h, counter, name) ==
    LET i2h == SymFullyConnected(inputs, self.iW, self.iB, self.num_hidden * 3,
                                 name \o <<"_i2h">>)
        h2h == SymFullyConnected(prev_state_h, self.hW, self.hB, self.num_hidden * 3,
                                 name \o <<"_h2h">>)
        shape_fix == lngru_shape_fix(self, counter, i2h)
    IN  IF counter # 0 /\ self.shape_fix = None
        THEN [raised |-> [kind |-> AssertionError, message |-> <<>>],
              cell |-> [self EXCEPT !.counter = counter],
              out |-> None]
        ELSE [raised |-> NoError,
              cell |-> [self EXCEPT !.counter = counter, !.shape_fix = shape_fix],
              out |-> lngru_outputs(self, prev_state_h, name, i2h, h2h, shape_fix)]

LayerNormGRUCell_call(self, inputs, states) ==
    lngru_step(self, inputs, states[1], self.counter + 1,
               step_name(self.prefix, self.counter + 1))

(***************************************************************************)
(* LayerNormPerGateLSTMCell.__call__                                       *)
(***************************************************************************)
\* lines 205-227
lnglstm_outputs(self, states, name, gates) ==
    LET slice(k) == SymSplit(gates, 4, 1, name \o <<"slice">>, k)
        in_gate == SymActivation(SymNormalize(self.norm_layers[1], slice(0)), "sigmoid",
                                 name \o <<"i">>)
        forget_gate == SymActivation(SymNormalize(self.norm_layers[2], slice(1)), "sigmoid",
                                     name \o <<"f">>)
        in_transform == SymActivation(SymNormalize(self.norm_layers[3], slice(2)), "tanh",
                                      name \o <<"c">>)
        out_gate == SymActivation(SymNormalize(self.norm_layers[4], slice(3)), "sigmoid",
                                  name \o <<"o">>)
        next_c == SymPlus(SymMul(forget_gate, states[2], NoName),
                          SymMul(in_gate, in_transform, NoName),
                          name \o <<"state">>)
        next_h == SymMul(out_gate,
                         SymActivation(SymNormalize(self.norm_layers[5], next_c), "tanh",
                                       NoName),
                         name \o <<"out">>)
    IN  [output |-> next_h, states |-> <<next_h, next_c>>]

\* lines 197-205
lnglstm_step(self, inputs, states, counter, name) ==
    LET i2h == SymFullyConnected(inputs, self.iW, self.iB, self.num_hidden * 4,
                                 name \o <<"i2h">>)
        h2h == SymFullyConnected(states[1], self.hW, self.hB, self.num_hidden * 4,
                                 name \o <<"h2h">>)
    IN  [raised |-> NoError,
         cell |-> [self EXCEPT !.counter = counter],
         out |-> lnglstm_outputs(self, states, name, SymPlus(i2h, h2h, NoName))]

LayerNormPerGateLSTMCell_call(self, inputs, states) ==
    lnglstm_step(self, inputs, states, self.counter + 1,
                 step_name(self.prefix, self.counter + 1))

(***************************************************************************)
(* LayerNormPerGateGRUCell.__call__                                        *)
(***************************************************************************)
\* lines 349-362
lnggru_outputs(self, prev_state_h, name, i2h, h2h) ==
    LET i2h_slice(k) == SymSplit(i2h, 3, 1, name \o <<"_i2h_slice">>, k)
        h2h_slice(k) == SymSplit(h2h, 3, 1, name \o <<"_h2h_slice">>, k)
        reset_gate == SymActivation(
                          SymNormalize(self.norm_layers[1],
                                       SymPlus(i2h_slice(0), h2h_slice(0), NoName)),
                          "sigmoid", name \o <<"_r_act">>)
        update_gate == SymActivation(
                           SymNormalize(self.norm_layers[2],
                                        SymPlus(i2h_slice(1), h2h_slice(1), NoName)),
                           "sigmoid", name \o <<"_z_act">>)
        next_h_tmp == SymActivation(
                          SymNormalize(self.norm_layers[3],
                                       SymPlus(i2h_slice(2),
                                               SymMul(reset_gate, h2h_slice(2), NoName),
                                               NoName)),
                          "tanh", name \o <<"_h_act">>)
        next_h == SymPlus(SymMul(SymRMinusScalar(1, update_gate), next_h_tmp, NoName),
                          SymMul(update_gate, prev_state_h, NoName),
                          name \o <<"out">>)
    IN  [output |-> next_h, states |-> <<next_h>>]

\* lines 332-347
lnggru_step(self, inputs, prev_state_h, counter, name) ==
    [raised |-> NoError,
     cell |-> [self EXCEPT !.counter = counter],
     out |-> lnggru_outputs(self, prev_state_h, name,
                            SymFullyConnected(inputs, self.iW, self.iB, self.num_hidden * 3,
                                              name \o <<"_i2h">>),
                            SymFullyConnected(prev_state_h, self.hW, self.hB,
                                              self.num_hidden * 3, name \o <<"_h2h">>))]

LayerNormPerGateGRUCell_call(self, inputs, states) ==
    lnggru_step(self, inputs, states[1], self.counter + 1,
                step_name(self.prefix, self.counter + 1))

\* the step of a cell of any of the four layer-normalized kinds
cell_call_of(self, inputs, states) ==
    CASE self.type = LNLSTM_TYPE -> LayerNormLSTMCell_call(self, inputs, states)
      [] self.type = LNGLSTM_TYPE -> LayerNormPerGateLSTMCell_call(self, inputs, states)
      [] self.type = LNGRU_TYPE -> LayerNormGRUCell_call(self, inputs, states)
      [] self.type = LNGGRU_TYPE -> LayerNormPerGateGRUCell_call(self, inputs, states)

(***************************************************************************)
(* A cell instance: construction, steps, reset                             *)
(***************************************************************************)
NewCell(made, args) ==
    /\ cell_call = Idle
    /\ cell_call' = args
    /\ cell_raised' = made.raised
    /\ cell' = made.cell
    /\ UNCHANGED <<cell_out, cell_hist>>
    /\ UNCHANGED <<lnVars, hdVars, mhaVars, rnnVars>>

NewLayerNormLSTMCell(num_hidden, forget_bias, norm_scale, norm_shift) ==
    NewCell(LayerNormLSTMCell_init(num_hidden, "lnlstm_", forget_bias, norm_scale, norm_shift),
            [op |-> "LayerNormLSTMCell", num_hidden |-> num_hidden,
             forget_bias |-> forget_bias, norm_scale |-> norm_scale,
             norm_shift |-> norm_shift])

NewLayerNormPerGateLSTMCell(num_hidden, forget_bias, norm_scale, norm_shift) ==
    NewCell(LayerNormPerGateLSTMCell_init(num_hidden, "lnglstm_", forget_bias, norm_scale,
                                          norm_shift),
            [op |-> "LayerNormPerGateLSTMCell", num_hidden |-> num_hidden,
             forget_bias |-> forget_bias, norm_scale |-> norm_scale,
             norm_shift |-> norm_shift])

\* one step of the across-gates LSTM cell
CallLayerNormLSTMCell(inputs, states) ==
    LET res == LayerNormLSTMCell_call(cell, inputs, states)
    IN  /\ cell # None
        /\ cell.type = LNLSTM_TYPE
        /\ cell_call' = [op |-> "call", inputs |-> inputs, states |-> states]
        /\ cell_raised' = res.raised
        /\ cell' = res.cell
        /\ cell_out' = res.out
        /\ cell_hist' = [cell_hist EXCEPT !.since = Append(@, inputs)]
        /\ UNCHANGED <<lnVars, hdVars, mhaVars, rnnVars>>

NewLayerNormGRUCell(num_hidden, norm_scale, norm_shift) ==
    NewCell(LayerNormGRUCell_init(num_hidden, "lngru_", norm_scale, norm_shift),
            [op |-> "LayerNormGRUCell", num_hidden |-> num_hidden,
             norm_scale |-> norm_scale, norm_shift |-> norm_shift])

NewLayerNormPerGateGRUCell(num_hidden, norm_scale, norm_shift) ==
    NewCell(LayerNormPerGateGRUCell_init(num_hidden, "lnggru_", norm_scale, norm_shift),
            [op |-> "LayerNormPerGateGRUCell", num_hidden |-> num_hidden,
             norm_scale |-> norm_scale, norm_shift |-> norm_shift])

\* a step of the cell with result res
StepCell(res, inputs, states) ==
    /\ cell_call' = [op |-> "call", inputs |-> inputs, states |-> states]
    /\ cell_raised' = res.raised
    /\ cell' = res.cell
    /\ cell_out' = res.out
    /\ cell_hist' = [cell_hist EXCEPT !.since = Append(@, inputs)]
    /\ UNCHANGED <<lnVars, hdVars, mhaVars, rnnVars>>

\* one step of the across-gates GRU cell
CallLayerNormGRUCell(inputs, states) ==
    /\ cell # None
    /\ cell.type = LNGRU_TYPE
    /\ StepCell(LayerNormGRUCell_call(cell, inputs, states), inputs, states)

\* one step of the per-gate LSTM cell
CallLayerNormPerGateLSTMCell(inputs, states) ==
    /\ cell # None
    /\ cell.type = LNGLSTM_TYPE
    /\ StepCell(LayerNormPerGateLSTMCell_call(cell, inputs, states), inputs, states)

\* one step of the per-gate GRU cell
CallLayerNormPerGateGRUCell(inputs, states) ==
    /\ cell # None
    /\ cell.type = LNGGRU_TYPE
    /\ StepCell(LayerNormPerGateGRUCell_call(cell, inputs, states), inputs, states)

\* BaseRNNCell.reset: the counter goes back to -1
ResetCell ==
    /\ cell # None
    /\ cell_call' = [op |-> "reset"]
    /\ cell_raised' = NoError
    /\ cell' = [cell EXCEPT !.counter = -1]
    /\ cell_hist' = [since |-> <<>>, reset |-> TRUE]
    /\ UNCHANGED cell_out
    /\ UNCHANGED <<lnVars, hdVars, mhaVars, rnnVars>>

(***************************************************************************)
(* split_heads followed by combine_heads on a tensor of shape              *)
(* (batch, length, depth)                                                  *)
(***************************************************************************)
MaxHdBatch == 2
MaxHdLength == 3
MaxHdHeads == 3
MaxDepthPerHead == 2
MaxFill == 2

\* tensors whose entries are all different; k varies the values
FilledTensor(shape, k) == Tensor(shape, [n \in 1..Product(shape) |-> (k + 1) * n + k])

SplitHeads ==
    /\ hd_split = NoTensor
    /\ hd_split' = split_heads(hd_x, hd_length, hd_heads)
    /\ UNCHANGED <<hd_x, hd_length, hd_heads, hd_combined>>
    /\ UNCHANGED <<lnVars, mhaVars, rnnVars, cellVars>>

CombineHeads ==
    /\ hd_split # NoTensor
    /\ hd_combined = NoTensor
    /\ hd_combined' = combine_heads(hd_split, hd_length, hd_heads)
    /\ UNCHANGED <<hd_x, hd_length, hd_heads, hd_split>>
    /\ UNCHANGED <<lnVars, mhaVars, rnnVars, cellVars>>

(***************************************************************************)
(* Specifications: one per component; the variables of the other           *)
(* components stay idle.                                                   *)
(***************************************************************************)

InitLN == IdleLN /\ IdleHD /\ IdleMHA /\ IdleRNN /\ IdleCell

NextLN ==
    \/ \E n \in 0..MaxNumHidden, si \in {RatOne, RatInt(2)}, sh \in {RatZero, RatOne} :
          LayerNormalization_init(n, si, sh)
    \/ /\ ln # None
       /\ \E b \in 1..MaxBatch : \E inputs \in [1..b -> Rows(ln.num_hidden)] :
             Normalize(inputs)

SpecLN == InitLN /\ [][NextLN]_vars

InitHD ==
    /\ IdleLN
    /\ IdleMHA
    /\ IdleRNN
    /\ IdleCell
    /\ \E b \in 1..MaxHdBatch, l \in 1..MaxHdLength, h \in 1..MaxHdHeads,
          d \in 1..MaxDepthPerHead, k \in 0..MaxFill :
          /\ hd_x = FilledTensor(<<b, l, h * d>>, k)
          /\ hd_length = l
          /\ hd_heads = h
    /\ hd_split = NoTensor
    /\ hd_combined = NoTensor

NextHD == SplitHeads \/ CombineHeads

SpecHD == InitHD /\ [][NextHD]_vars

(***************************************************************************)
(* MultiHeadAttention: construction, then one call of on                   *)
(***************************************************************************)
MaxAttDepth == 4
MaxAttHeads == 2
MaxOnDepth == 8      \* on is called on units of at most this attention depth
MaxOnBatch == 2
MaxOnLength == 4
MaxOnCells == 4      \* ... on inputs of at most this batch * length

DepthAtts == (1..MaxAttDepth) \cup {8, 512}
HeadCounts == (1..MaxAttHeads) \cup {7, 8}

\* inputs of shape (batch, length, 1) with values 0, 1, 2
OnInputs(batch, length) ==
    {Tensor(<<batch, length, 1>>, [n \in 1..(batch * length) |-> (n + c) % 3]) :
        c \in {0, 1}}

\* weights (3 * depth, 1) and biases (3 * depth) of the combined projection
OnWeights(depth) ==
    {[w |-> Tensor(<<3 * depth, 1>>, [n \in 1..(3 * depth) |-> 1]),
      b |-> Tensor(<<3 * depth>>, [n \in 1..(3 * depth) |-> 0])],
     [w |-> Tensor(<<3 * depth, 1>>, [n \in 1..(3 * depth) |->
                                        IF n <= depth THEN n
                                        ELSE IF n <= 2 * depth THEN 1 ELSE n % 3]),
      b |-> Tensor(<<3 * depth>>, [n \in 1..(3 * depth) |->
                                     IF n <= depth THEN 0
                                     ELSE IF n <= 2 * depth THEN 1 ELSE 0])],
     [w |-> Tensor(<<3 * depth, 1>>, [n \in 1..(3 * depth) |->
                                        IF n <= depth THEN -10000
                                        ELSE IF n <= 2 * depth THEN 10000 ELSE 1]),
      b |-> Tensor(<<3 * depth>>, [n \in 1..(3 * depth) |-> 0])]}

ValidLengths(batch, length) == {Tensor(<<batch>>, l) : l \in [1..batch -> 0..length]}

\* the query scale depth_per_head ** -0.5 is rational
ExactScale(self) == \E r \in 1..self.depth_per_head : r * r = self.depth_per_head

InitMHA == IdleLN /\ IdleHD /\ IdleMHA /\ IdleRNN /\ IdleCell

NextMHA ==
    \/ \E d \in DepthAtts, h \in HeadCounts, o \in {0, 1} :
          MultiHeadAttention_init(d, h, d + o, IF o = 0 THEN <<0, 1>> ELSE <<1, 10>>)
    \/ /\ mha # None
       /\ mha.depth <= MaxOnDepth
       /\ ExactScale(mha)
       /\ \E batch \in 1..MaxOnBatch, length \in 1..MaxOnLength :
             /\ batch * length <= MaxOnCells
             /\ \E inputs \in OnInputs(batch, length), wb \in OnWeights(mha.depth),
                lens \in ValidLengths(batch, length) :
                On(inputs, lens, length, wb.w, wb.b)

SpecMHA == InitMHA /\ [][NextMHA]_vars

(***************************************************************************)
(* get_stacked_rnn on every configuration                                  *)
(***************************************************************************)
MaxRnnHidden == 3
MaxLayers == 3

CellTypes == {LSTM_TYPE, LNLSTM_TYPE, LNGLSTM_TYPE, GRU_TYPE, LNGRU_TYPE, LNGGRU_TYPE,
              "rnn_relu"}
RnnDropouts == {<<-1, 10>>, <<0, 1>>, <<1, 10>>}
ForgetBiases == {RatZero, RatOne}

InitRNN == IdleLN /\ IdleHD /\ IdleMHA /\ IdleRNN /\ IdleCell

NextRNN ==
    \E t \in CellTypes, n \in 1..MaxRnnHidden, l \in 0..MaxLayers, d \in RnnDropouts,
       r \in BOOLEAN, f \in ForgetBiases :
       GetStackedRnn(RNNConfig(t, n, l, d, r, f))

SpecRNN == InitRNN /\ [][NextRNN]_vars

(***************************************************************************)
(* A layer-normalized cell: construction, then steps and resets            *)
(***************************************************************************)
MaxCellHidden == 2
MaxSteps == 2        \* steps between two resets

NormInits == {RatZero, RatOne, RatInt(2)}
StepInputs == {SymVar("x0"), SymVar("x1")}
BeginState == <<SymVar("h0"), SymVar("c0")>>
GruBeginState == <<SymVar("h0")>>

\* the states a step is given: the begin state, or within a sequence the
\* states returned by the previous step
StepStates ==
    {IF cell.gates = 3 THEN GruBeginState ELSE BeginState}
    \cup (IF cell.counter >= 0 /\ cell_out # None THEN {cell_out.states} ELSE {})

InitCell == IdleLN /\ IdleHD /\ IdleMHA /\ IdleRNN /\ IdleCell

NextCell ==
    \/ \E n \in 1..MaxCellHidden, f \in ForgetBiases, sc \in NormInits, sh \in NormInits :
          NewLayerNormLSTMCell(n, f, sc, sh)
    \/ \E n \in 1..MaxCellHidden, f \in ForgetBiases, sc \in NormInits, sh \in NormInits :
          NewLayerNormPerGateLSTMCell(n, f, sc, sh)
    \/ \E n \in 1..MaxCellHidden, sc \in NormInits, sh \in NormInits :
          NewLayerNormGRUCell(n, sc, sh)
    \/ \E n \in 1..MaxCellHidden, sc \in NormInits, sh \in NormInits :
          NewLayerNormPerGateGRUCell(n, sc, sh)
    \/ /\ cell # None
       /\ cell.counter + 1 < MaxSteps
       /\ \E inputs \in StepInputs, states \in StepStates :
             CallLayerNormLSTMCell(inputs, states)
    \/ /\ cell # None
       /\ cell.counter + 1 < MaxSteps
       /\ \E inputs \in StepInputs, states \in StepStates :
             CallLayerNormGRUCell(inputs, states)
    \/ /\ cell # None
       /\ cell.counter + 1 < MaxSteps
       /\ \E inputs \in StepInputs, states \in StepStates :
             CallLayerNormPerGateLSTMCell(inputs, states)
    \/ /\ cell # None
       /\ cell.counter + 1 < MaxSteps
       /\ \E inputs \in StepInputs, states \in StepStates :
             CallLayerNormPerGateGRUCell(inputs, states)
    \/ ResetCell

SpecCell == InitCell /\ [][NextCell]_vars

(***************************************************************************)
(* Properties of LayerNormalization                                        *)
(***************************************************************************)

\* C1: constructing a LayerNormalization with num_hidden <= 1 raises the
\* configuration error inside the constructor, with no parameter created and
\* no normalize result; with num_hidden > 1 the constructor succeeds and the
\* unit owns its scale and shift parameters.
C1_ConstructorPrecondition ==
    ln_call.op = "LayerNormalization" =>
        IF ln_call.num_hidden <= 1
        THEN /\ ln_raised.kind = ConfigurationError
             /\ ln = None
             /\ ln_variables = <<>>
             /\ ln_out = <<>>
        ELSE /\ ln_raised = NoError
             /\ ln # None
             /\ ln.num_hidden = ln_call.num_hidden
             /\ Len(ln_variables) = 2

C1_Witness ==
    /\ ln_call.op = "LayerNormalization"
    /\ ln_call.num_hidden = 1
    /\ ln_raised.kind = ConfigurationError
    /\ ln = None

\* (output - shift) / scale of one row of the normalize result
Unscaled(i) ==
    LET scale == ConstantFill(ln.scale)
        shift == ConstantFill(ln.shift)
    IN  [j \in 1..Len(ln_out[i]) |->
           Surd(RatDiv(ln_out[i][j].c, scale[j]), ln_out[i][j].r,
                RatDiv(RatSub(ln_out[i][j].o, shift[j]), scale[j]))]

SurdCoefs(row) == [j \in 1..Len(row) |-> row[j].c]
SurdOffsets(row) == [j \in 1..Len(row) |-> row[j].o]

\* the mean over H of a row of values c_j * rsqrt(r) is within 1e-4 of 0
MeanNearZeroOf(row) ==
    LET mc == RatMean(SurdCoefs(row))
    IN  /\ \A j \in 1..Len(row) : row[j].o = RatZero
        /\ RatWithin(RatDiv(RatMul(mc, mc), row[1].r), 100000000)

\* the variance over H of a row of values c_j * rsqrt(r)
SurdVariance(row) ==
    LET mc == RatMean(SurdCoefs(row))
    IN  RatDiv(RatMean([j \in 1..Len(row) |-> LET d == RatSub(row[j].c, mc)
                                              IN  RatMul(d, d)]),
               row[1].r)

VarNearOneOf(row) ==
    /\ \A j \in 1..Len(row) : row[j].o = RatZero
    /\ RatWithin(RatSub(SurdVariance(row), RatOne), 10000)

MeanNearZero(i) == MeanNearZeroOf(Unscaled(i))
VarNearOne(i) == VarNearOneOf(Unscaled(i))

\* the variance of an input row, from the inputs alone: (H*sum(x^2) - sum(x)^2) / H^2
InputVariance(row) ==
    LET h == RatInt(Len(row))
        sq == RatSum([j \in 1..Len(row) |-> RatMul(row[j], row[j])])
        su == RatSum(row)
    IN  RatDiv(RatSub(RatMul(h, sq), RatMul(su, su)), RatMul(h, h))

\* var >= 0.09999, the spread at which eps / (var + eps) drops to 1e-4
EnoughSpread(row) == RatSub(InputVariance(row), <<9999, 100000>>)[1] >= 0

\* C9 as stated: every row of every batch, constant and small-spread rows
\* included, has normalized mean within 1e-4 of 0 and variance within 1e-4
\* of 1.
C9_EveryRowUnitVariance ==
    ln_call.op = "normalize" =>
        \A i \in 1..Len(ln_out) : MeanNearZero(i) /\ VarNearOne(i)

\* C9 amended: every row has normalized mean within 1e-4 of 0, and its
\* normalized variance is within 1e-4 of 1 exactly when the variance of the
\* input row is at least 0.09999; rows of smaller spread fall short of 1.
C9_UnitVarianceGivenSpread ==
    ln_call.op = "normalize" =>
        \A i \in 1..Len(ln_out) :
            /\ MeanNearZero(i)
            /\ VarNearOne(i) <=> EnoughSpread(ln_inputs[i])

C9_Witness ==
    /\ ln_call.op = "normalize"
    /\ \E i \in 1..Len(ln_out) :
          /\ EnoughSpread(ln_inputs[i])
          /\ RatMean(ln_inputs[i]) # RatZero
          /\ VarNearOne(i)
    /\ \E i \in 1..Len(ln_out) : ~EnoughSpread(ln_inputs[i])

(***************************************************************************)
(* Properties of split_heads / combine_heads                               *)
(***************************************************************************)
HdBatch == hd_x.shape[1]
HdDepth == hd_x.shape[3]
HdPerHead == HdDepth \div hd_heads

RECURSIVE ParseD(_)
ParseD(ds) ==
    IF ds = <<>> THEN 0
    ELSE ParseD(SubSeq(ds, 1, Len(ds) - 1)) * 10 + ds[Len(ds)]

\* C2: for attention depth >= 1 and head count >= 1 the constructor succeeds
\* exactly when the depth is divisible by the head count, with
\* depth_per_head = depth / heads; otherwise it raises the configuration
\* error with a message that contains the head count and the depth.
C2_HeadsMustDivideDepth ==
    mha_call.op = "MultiHeadAttention" =>
        IF \E n \in 1..mha_call.depth_att : n * mha_call.heads = mha_call.depth_att
        THEN /\ mha_raised = NoError
             /\ mha # None
             /\ mha.depth_per_head * mha_call.heads = mha_call.depth_att
        ELSE /\ mha_raised.kind = ConfigurationError
             /\ mha = None
             /\ ParseD(mha_raised.message[2]) = mha_call.heads
             /\ ParseD(mha_raised.message[4]) = mha_call.depth_att

C2_Witness ==
    /\ mha_call.op = "MultiHeadAttention"
    /\ mha_call.depth_att = 512
    /\ mha_call.heads = 7
    /\ mha_raised.kind = ConfigurationError
    /\ mha_raised.message[2] = <<7>>
    /\ mha_raised.message[4] = <<5, 1, 2>>

OnDone == mha_call.op = "on"
OnRows == on_res.probs.shape[1]
OnLength == on_args.length

\* the valid length of the sequence that row r of the score tensor belongs to
OnValidLength(r) == on_args.inputs_length.data[(r \div mha.heads) + 1]

\* the probability <<e, z>> is at most 1e-6
AtMostMillionth(p) == p[1] <= p[2] \div 1000000

\* the largest score of query q of row r among the keys below the valid length
BestUnmasked(r, q) ==
    IntMax([k \in 1..OnValidLength(r) |-> At(on_res.logits, <<r, q, k - 1>>)])

\* ... is at least 14 (more than ln 1e6) above the sentinel
ScoresAboveSentinel(r, q) ==
    BestUnmasked(r, q) >= (MASK_VALUE + 14) * on_res.logits.den

\* C4 as stated: whatever the valid length, every key position at or beyond
\* it has probability at most 1e-6, for every row and query position.
C4_NoMassBeyondLength ==
    OnDone =>
        \A r \in 0..(OnRows - 1), q \in 0..(OnLength - 1), k \in 0..(OnLength - 1) :
            k >= OnValidLength(r) => AtMostMillionth(At(on_res.probs, <<r, q, k>>))

\* C4 amended: when the valid length is at least 1 and the best score among
\* the unmasked keys is at least 14 above the sentinel, every key position at
\* or beyond the valid length has probability at most 1e-6; when the valid
\* length is 0 every key position is masked and each has probability 1/length.
C4_NoMassBeyondPositiveLength ==
    OnDone =>
        \A r \in 0..(OnRows - 1), q \in 0..(OnLength - 1), k \in 0..(OnLength - 1) :
            LET p == At(on_res.probs, <<r, q, k>>)
            IN  /\ (k >= OnValidLength(r) /\ OnValidLength(r) >= 1
                    /\ ScoresAboveSentinel(r, q))
                      => AtMostMillionth(p)
                /\ OnValidLength(r) = 0 => p[1] * OnLength = p[2]

\* valid length 2 of length 4: key positions 2 and 3 carry no mass
C4_Witness ==
    /\ OnDone
    /\ OnLength = 4
    /\ on_args.inputs_length.data = <<2>>
    /\ \A r \in 0..(OnRows - 1), q \in 0..3 :
          /\ ScoresAboveSentinel(r, q)
          /\ At(on_res.probs, <<r, q, 2>>)[1] = 0
          /\ At(on_res.probs, <<r, q, 3>>)[1] = 0
          /\ At(on_res.probs, <<r, q, 0>>)[1] > 0

\* C5: the score of row r, query q, key k is replaced by the sentinel exactly
\* when k is at or beyond the valid length of sequence r div heads, whatever
\* q is; every other score is the one computed by the batched product.
C5_MaskAlongKeyAxisOnly ==
    OnDone =>
        /\ on_res.masked.shape = on_res.logits.shape
        /\ on_res.masked.shape = <<on_args.inputs.shape[1] * mha.heads, OnLength, OnLength>>
        /\ \A r \in 0..(OnRows - 1), q \in 0..(OnLength - 1), k \in 0..(OnLength - 1) :
              At(on_res.masked, <<r, q, k>>)
                  = IF k >= OnValidLength(r)
                    THEN MASK_VALUE * on_res.logits.den
                    ELSE At(on_res.logits, <<r, q, k>>)

\* two sequences of different valid lengths under two heads, and a query
\* position beyond its sequence's valid length whose unmasked scores are kept
C5_Witness ==
    /\ OnDone
    /\ mha.heads = 2
    /\ mha.depth_per_head > 1
    /\ on_args.inputs_length.data = <<1, 2>>
    /\ At(on_res.masked, <<1, 1, 1>>) = MASK_VALUE * on_res.logits.den
    /\ At(on_res.masked, <<1, 1, 0>>) = At(on_res.logits, <<1, 1, 0>>)
    /\ At(on_res.masked, <<1, 1, 0>>) # MASK_VALUE * on_res.logits.den
    /\ At(on_res.masked, <<2, 1, 1>>) = At(on_res.logits, <<2, 1, 1>>)

(***************************************************************************)
(* Properties of get_stacked_rnn                                           *)
(***************************************************************************)
RnnDone == rnn_call.op = "get_stacked_rnn"
Config == rnn_call.config

Supported ==
    Config.cell_type \in {LSTM_TYPE, LNLSTM_TYPE, LNGLSTM_TYPE,
                          GRU_TYPE, LNGRU_TYPE, LNGGRU_TYPE}

\* every Normalization unit of every layer gets a dimension above 1
Constructible ==
    \/ Config.num_layers = 0
    \/ Config.num_hidden > 1
    \/ Config.cell_type \in {LSTM_TYPE, GRU_TYPE, LNGRU_TYPE}

\* entries per layer
Stride == IF Config.dropout[1] > 0 THEN 2 ELSE 1

IsLayerCell(layer_cell, layer) ==
    /\ layer_cell.type = Config.cell_type
    /\ layer_cell.num_hidden = Config.num_hidden
    /\ ParseD(layer_cell.prefix[3]) = layer

\* the stack holds, layer by layer, one cell of the configured kind, wrapped
\* iff residual and layer > 0, followed by a dropout wrapper iff dropout > 0
StackAsConfigured ==
    /\ rnn_raised = NoError
    /\ Len(rnn) = Config.num_layers * Stride
    /\ \A layer \in 0..(Config.num_layers - 1) :
          LET e == rnn[layer * Stride + 1]
          IN  /\ IF Config.residual /\ layer > 0
                 THEN e.type = "ResidualCell" /\ IsLayerCell(e.base_cell, layer)
                 ELSE IsLayerCell(e, layer)
              /\ Stride = 2 =>
                    /\ rnn[layer * Stride + 2].type = "DropoutCell"
                    /\ rnn[layer * Stride + 2].dropout = Config.dropout

\* C6 as stated: every configuration with a supported cell kind yields the
\* stack described above.
C6_StackForEverySupportedConfig == (RnnDone /\ Supported) => StackAsConfigured

\* C6 amended: every configuration with a supported cell kind whose cells can
\* be constructed yields the stack described above; the others (num_hidden = 1
\* with lnlstm, lnglstm or lnggru and at least one layer) raise the
\* configuration error and yield no stack.
C6_StackForConstructibleConfig ==
    (RnnDone /\ Supported) =>
        IF Constructible THEN StackAsConfigured
        ELSE rnn_raised.kind = ConfigurationError /\ rnn = None

C6_Witness ==
    /\ RnnDone
    /\ Config.cell_type = LNLSTM_TYPE
    /\ Config.residual
    /\ Config.dropout[1] > 0
    /\ Config.num_layers = 3
    /\ rnn_raised = NoError
    /\ Len(rnn) = 6
    /\ rnn[1].type = LNLSTM_TYPE
    /\ rnn[3].type = "ResidualCell"
    /\ rnn[6].type = "DropoutCell"

PerGateBuilt ==
    /\ cell_call # Idle
    /\ cell_call.op = "LayerNormPerGateLSTMCell"
    /\ cell_raised = NoError

\* the initial value the claim gives the shift of unit k
ShiftInitOf(k) ==
    IF LSTM_GATE_NAMES[k] = "f" THEN cell_call.forget_bias ELSE cell_call.norm_shift

\* C8 as stated: after the per-gate LSTM cell is constructed, the forget-gate
\* unit's shift is initialized to forget_bias, the shift of each other unit
\* to norm_shift, and the scale of each of the five units to norm_scale.
C8_PerGateInitialisers ==
    PerGateBuilt =>
        \A k \in 1..Len(LSTM_GATE_NAMES) :
            /\ cell.norm_layers[k].shift.init = ShiftInitOf(k)
            /\ cell.norm_layers[k].scale.init = cell_call.norm_scale

(***************************************************************************)
(* Properties of one step of the across-gates layer-normalized LSTM cell    *)
(***************************************************************************)
\* the value a symbol denotes: names dropped, and zeros + x taken as x
RECURSIVE Sem(_)
Sem(t) ==
    CASE t.op = "Variable" -> t
      [] t.op = "FullyConnected" ->
            [op |-> t.op, data |-> Sem(t.data), weight |-> t.weight, bias |-> t.bias,
             num_hidden |-> t.num_hidden]
      [] t.op = "zeros_like" -> [op |-> t.op]
      [] t.op = "_plus" ->
            IF t.lhs.op = "zeros_like" THEN Sem(t.rhs)
            ELSE [op |-> t.op, lhs |-> Sem(t.lhs), rhs |-> Sem(t.rhs)]
      [] t.op = "_mul" -> [op |-> t.op, lhs |-> Sem(t.lhs), rhs |-> Sem(t.rhs)]
      [] t.op = "_rminus_scalar" -> [op |-> t.op, scalar |-> t.scalar, data |-> Sem(t.data)]
      [] t.op = "split" ->
            [op |-> t.op, data |-> Sem(t.data), num_outputs |-> t.num_outputs,
             axis |-> t.axis, index |-> t.index]
      [] t.op = "Activation" -> [op |-> t.op, data |-> Sem(t.data), act_type |-> t.act_type]
      [] t.op = "normalize" ->
            [op |-> t.op, scale |-> t.scale, shift |-> t.shift, data |-> Sem(t.data)]

sigmoid(x) == SymActivation(x, "sigmoid", NoName)
tanh(x) == SymActivation(x, "tanh", NoName)
times(a, b) == SymMul(a, b, NoName)
plus(a, b) == SymPlus(a, b, NoName)

StepDone ==
    /\ cell_call # Idle
    /\ cell_call.op = "call"
    /\ cell # None
    /\ cell.type = LNLSTM_TYPE
    /\ cell_raised = NoError

\* the recurrence for input x and state (h_prev, c_prev)
GatesRaw(x, h_prev) ==
    plus(SymNormalize(cell.iN,
                      SymFullyConnected(x, cell.iW, cell.iB, 4 * cell.num_hidden, NoName)),
         SymNormalize(cell.hN,
                      SymFullyConnected(h_prev, cell.hW, cell.hB, 4 * cell.num_hidden,
                                        NoName)))

\* the k-th (from 0) of the four H-sized chunks along the feature axis
Chunk(gatesRaw, k) == SymSplit(gatesRaw, 4, 1, NoName, k)

NewMemory(gatesRaw, c_prev) ==
    plus(times(sigmoid(Chunk(gatesRaw, 1)), c_prev),
         times(sigmoid(Chunk(gatesRaw, 0)), tanh(Chunk(gatesRaw, 2))))

NewHidden(gatesRaw, c) == times(sigmoid(Chunk(gatesRaw, 3)), tanh(SymNormalize(cell.cN, c)))

ExpectedMemory ==
    NewMemory(GatesRaw(cell_call.inputs, cell_call.states[1]), cell_call.states[2])

ExpectedHidden ==
    NewHidden(GatesRaw(cell_call.inputs, cell_call.states[1]), ExpectedMemory)

DistinctUnits(a, b) == a.scale.name # b.scale.name /\ a.shift.name # b.shift.name

\* C10: one step of the across-gates LSTM normalizes the 4H input and hidden
\* projections with two distinct units and sums them, splits the sum in the
\* order inGate, forgetGate, candidate, outGate, computes
\* c = sigmoid(forgetGate) * c_prev + sigmoid(inGate) * tanh(candidate) and
\* h = sigmoid(outGate) * tanh(normCell(c)), and returns output h with new
\* state (h, c), c being stored un-normalized.
C10_StepIsTheRecurrence ==
    StepDone =>
        /\ DistinctUnits(cell.iN, cell.hN)
        /\ Sem(cell_out.output) = Sem(ExpectedHidden)
        /\ Len(cell_out.states) = 2
        /\ Sem(cell_out.states[1]) = Sem(ExpectedHidden)
        /\ Sem(cell_out.states[2]) = Sem(ExpectedMemory)
        /\ Sem(cell_out.states[2]).op # "normalize"

\* the second step of a sequence, fed the states the first step returned
C10_Witness ==
    /\ StepDone
    /\ cell.counter = 1
    /\ cell_call.states # BeginState
    /\ cell_call.states[2].op = "_plus"
    /\ cell_out.states[2] # cell_call.states[2]
    /\ Sem(cell_out.output) = Sem(ExpectedHidden)

(***************************************************************************)
(* Properties of one step of the across-gates layer-normalized GRU cell     *)
(***************************************************************************)
GruStepDone ==
    /\ cell_call # Idle
    /\ cell_call.op = "call"
    /\ cell # None
    /\ cell.type = LNGRU_TYPE
    /\ cell_raised = NoError

one_minus(x) == SymRMinusScalar(1, x)

\* normInput(Linear_i(x)) and normHidden(Linear_h(h_prev)), both over 3H
GruI2H(x) ==
    SymNormalize(cell.iN, SymFullyConnected(x, cell.iW, cell.iB, 3 * cell.num_hidden, NoName))

GruH2H(h_prev) ==
    SymNormalize(cell.hN,
                 SymFullyConnected(h_prev, cell.hW, cell.hB, 3 * cell.num_hidden, NoName))

\* the k-th (from 0) of the three H-sized chunks: reset, update, candidate
GruChunk(t, k) == SymSplit(t, 3, 1, NoName, k)

GruGate(i2h, h2h, k) == sigmoid(plus(GruChunk(i2h, k), GruChunk(h2h, k)))

GruCandidate(i2h, h2h) ==
    tanh(plus(GruChunk(i2h, 2), times(GruGate(i2h, h2h, 0), GruChunk(h2h, 2))))

GruHidden(i2h, h2h, h_prev) ==
    plus(times(one_minus(GruGate(i2h, h2h, 1)), GruCandidate(i2h, h2h)),
         times(GruGate(i2h, h2h, 1), h_prev))

GruExpectedHidden ==
    GruHidden(GruI2H(cell_call.inputs), GruH2H(cell_call.states[1]), cell_call.states[1])

\* the zero placeholder is the only operand the step adds to the recurrence
RECURSIVE Placeholders(_)
Placeholders(t) ==
    CASE t.op = "Variable" -> 0
      [] t.op = "zeros_like" -> 1
      [] t.op \in {"_plus", "_mul"} -> Placeholders(t.lhs) + Placeholders(t.rhs)
      [] OTHER -> Placeholders(t.data)

\* C11: one step of the across-gates GRU normalizes the 3H input and hidden
\* projections with two distinct units, splits each in the order reset,
\* update, candidate, and returns h = (1 - z) * cand + z * h_prev with
\* r = sigmoid(i2h_r + h2h_r), z = sigmoid(i2h_z + h2h_z),
\* cand = tanh(i2h_c + r * h2h_c); output and the single state are both h,
\* and the zero placeholder only occurs added to the hidden projection.
C11_GruStepIsTheRecurrence ==
    GruStepDone =>
        /\ DistinctUnits(cell.iN, cell.hN)
        /\ Sem(cell_out.output) = Sem(GruExpectedHidden)
        /\ Len(cell_out.states) = 1
        /\ cell_out.states[1] = cell_out.output
        /\ Placeholders(Sem(cell_out.output)) = 0

\* the second step of a sequence, fed the state the first step returned
C11_Witness ==
    /\ GruStepDone
    /\ cell.counter = 1
    /\ cell_call.states # GruBeginState
    /\ cell_call.states[1].op = "_plus"
    /\ cell_out.output # cell_call.states[1]
    /\ Placeholders(cell_out.output) > 0
    /\ Sem(cell_out.output) = Sem(GruExpectedHidden)

(***************************************************************************)
(* Properties of the second projection of MultiHeadAttention.on             *)
(***************************************************************************)
OnBatch == on_args.inputs.shape[1]

\* the result is the second projection applied to the head-combined context
Projected ==
    /\ on_res.out.op = "FullyConnected"
    /\ on_res.out.weight = mha.w_h2o
    /\ on_res.out.bias = mha.b_h2o
    /\ on_res.out.num_hidden = mha.depth_out
    /\ on_res.out.data.shape = <<OnBatch * OnLength, mha.depth>>
    /\ Len(on_res.out.data.data) = OnBatch * OnLength * mha.depth

\* the result is the head-combined context itself, a tensor in which the
\* parameters of the second projection do not occur
PassedThrough ==
    /\ on_res.out.op = "contexts"
    /\ DOMAIN on_res.out = {"op", "data", "shape"}
    /\ on_res.out.data.shape = <<OnBatch, OnLength, mha.depth>>
    /\ Len(on_res.out.data.data) = OnBatch * OnLength * mha.depth

\* C12: the second projection is applied to the head-combined context iff
\* depth_out differs from depth; when they are equal the context is returned
\* unchanged and w_h2o, b_h2o take no part; in both cases the result has
\* shape (batch, length, depth_out).
C12_SecondProjectionIffDepthsDiffer ==
    OnDone =>
        /\ (mha.depth_out # mha.depth) => Projected
        /\ (mha.depth_out = mha.depth) => PassedThrough
        /\ Projected # PassedThrough
        /\ on_res.out.shape = <<OnBatch, OnLength, mha.depth_out>>

\* two heads over depth 8 projected to depth_out 9
C12_Witness ==
    /\ OnDone
    /\ mha.heads = 2
    /\ mha.depth = 8
    /\ mha.depth_out = 9
    /\ OnBatch = 2
    /\ OnLength = 2
    /\ Projected
    /\ on_res.out.shape = <<2, 2, 9>>

(***************************************************************************)
(* Properties of the per-gate layer-normalized GRU cell's constructor       *)
(***************************************************************************)
PerGateGruBuilt ==
    /\ cell_call # Idle
    /\ cell_call.op = "LayerNormPerGateGRUCell"
    /\ cell_raised = NoError

\* a batch of one row 0, 1, ..., h - 1
RampRow(h) == <<[j \in 1..h |-> RatInt(j - 1)]>>

\* (x - mean) / sqrt(var + eps)
PlainNormalized(inputs) ==
    mul_rsqrt(broadcast_minus(inputs, mean_axis1(inputs)),
              var_plus_eps(moments(inputs)[2], EPS))

\* C13: after the per-gate GRU cell is constructed, each of its three units
\* has a scale initialized to norm_scale and a shift initialized to
\* norm_shift, so with norm_scale = 1 and norm_shift = 0 each unit computes
\* the plain (x - mean) / sqrt(var + eps).
C13_PerGateGruInitialisers ==
    PerGateGruBuilt =>
        \A k \in 1..Len(GRU_GATE_NAMES) :
            /\ cell.norm_layers[k].scale.init = cell_call.norm_scale
            /\ cell.norm_layers[k].shift.init = cell_call.norm_shift
            /\ (cell_call.norm_scale = RatOne /\ cell_call.norm_shift = RatZero) =>
                  normalize(cell.norm_layers[k], RampRow(cell.num_hidden), EPS)
                      = PlainNormalized(RampRow(cell.num_hidden))

(***************************************************************************)
(* What a step takes from the call counter                                 *)
(***************************************************************************)
\* a symbol with the operation names dropped
RECURSIVE Unnamed(_)
Unnamed(t) ==
    CASE t.op = "Variable" -> t
      [] t.op = "FullyConnected" ->
            [op |-> t.op, data |-> Unnamed(t.data), weight |-> t.weight, bias |-> t.bias,
             num_hidden |-> t.num_hidden]
      [] t.op = "zeros_like" -> [op |-> t.op, data |-> Unnamed(t.data)]
      [] t.op \in {"_plus", "_mul"} ->
            [op |-> t.op, lhs |-> Unnamed(t.lhs), rhs |-> Unnamed(t.rhs)]
      [] t.op = "_rminus_scalar" ->
            [op |-> t.op, scalar |-> t.scalar, data |-> Unnamed(t.data)]
      [] t.op = "split" ->
            [op |-> t.op, data |-> Unnamed(t.data), num_outputs |-> t.num_outputs,
             axis |-> t.axis, index |-> t.index]
      [] t.op = "Activation" ->
            [op |-> t.op, data |-> Unnamed(t.data), act_type |-> t.act_type]
      [] t.op = "normalize" ->
            [op |-> t.op, scale |-> t.scale, shift |-> t.shift, data |-> Unnamed(t.data)]

AcrossGates(self) == self.type \in {LNLSTM_TYPE, LNGRU_TYPE}

\* the operations a step built and their operands
Built(res) ==
    IF res.out = None THEN None
    ELSE [output |-> Unnamed(res.out.output),
          states |-> [i \in 1..Len(res.out.states) |-> Unnamed(res.out.states[i])]]

\* the values a step computes, the zero placeholder taken as zero
Computed(res) ==
    IF res.out = None THEN None
    ELSE [output |-> Sem(res.out.output),
          states |-> [i \in 1..Len(res.out.states) |-> Sem(res.out.states[i])]]

\* the instance state after a step, the counter left out
InstanceState(res) ==
    IF AcrossGates(res.cell)
    THEN [res.cell EXCEPT !.counter = 0,
                          !.shape_fix = IF @ = None THEN None ELSE Unnamed(@)]
    ELSE [res.cell EXCEPT !.counter = 0]

\* the instance state after a step, the counter and the placeholder left out
InstanceStateButPlaceholder(res) ==
    IF AcrossGates(res.cell)
    THEN [res.cell EXCEPT !.counter = 0, !.shape_fix = None]
    ELSE [res.cell EXCEPT !.counter = 0]

\* the counter values an instance with this state can have: a placeholder is
\* only missing before the first step
CounterValues(self) ==
    IF AcrossGates(self) /\ self.shape_fix = None THEN {-1} ELSE -1..(MaxSteps - 2)

\* the step just taken, and the same step had the counter been k
StepTaken == cell # None /\ cell_call'.op = "call"
ThisStep == [raised |-> cell_raised', cell |-> cell', out |-> cell_out']
StepWithCounter(k) ==
    cell_call_of([cell EXCEPT !.counter = k], cell_call'.inputs, cell_call'.states)

\* C14 as stated: in every variant, whatever the counter's value, a step
\* builds the same operations from the same operands and leaves the same
\* instance state, names and the counter itself apart.
C14_CounterOnlyNames ==
    [][StepTaken =>
          \A k \in CounterValues(cell) :
              /\ StepWithCounter(k).raised = ThisStep.raised
              /\ Built(StepWithCounter(k)) = Built(ThisStep)
              /\ InstanceState(StepWithCounter(k)) = InstanceState(ThisStep)]_vars

\* C14 amended: in the per-gate variants the counter only generates names;
\* in the across-gates variants it also decides whether the step creates the
\* zero placeholder or reuses the stored one, so the stored placeholder and
\* the operand added to the hidden projection depend on it, while the values
\* computed and the rest of the instance state do not.
C14_CounterOnlyNamesAndPlaceholder ==
    [][StepTaken =>
          \A k \in CounterValues(cell) :
              /\ StepWithCounter(k).raised = ThisStep.raised
              /\ Computed(StepWithCounter(k)) = Computed(ThisStep)
              /\ InstanceStateButPlaceholder(StepWithCounter(k))
                    = InstanceStateButPlaceholder(ThisStep)
              /\ ~AcrossGates(cell) =>
                    /\ Built(StepWithCounter(k)) = Built(ThisStep)
                    /\ InstanceState(StepWithCounter(k)) = InstanceState(ThisStep)
              /\ AcrossGates(cell) =>
                    IF k = -1
                    THEN /\ StepWithCounter(k).cell.shape_fix.op = "zeros_like"
                         /\ StepWithCounter(k).cell.shape_fix.data.data = cell_call'.inputs
                    ELSE StepWithCounter(k).cell.shape_fix = cell.shape_fix]_vars

\* a second step of an across-gates cell that reuses the placeholder the
\* first step created from another input
C14_Witness ==
    /\ cell_call # Idle
    /\ cell_call.op = "call"
    /\ cell # None
    /\ AcrossGates(cell)
    /\ cell_raised = NoError
    /\ cell.counter = 1
    /\ cell.shape_fix.data.data # cell_call.inputs
    /\ cell.shape_fix.data.name[3] = FormatD(0)

(***************************************************************************)
(* The zero placeholder of the across-gates cells under steps and resets    *)
(***************************************************************************)
\* the placeholders occurring in a symbol
RECURSIVE PlaceholdersOf(_)
PlaceholdersOf(t) ==
    CASE t.op = "Variable" -> {}
      [] t.op = "zeros_like" -> {t}
      [] t.op \in {"_plus", "_mul"} -> PlaceholdersOf(t.lhs) \cup PlaceholdersOf(t.rhs)
      [] OTHER -> PlaceholdersOf(t.data)

AcrossStepDone ==
    /\ cell_call # Idle
    /\ cell_call.op = "call"
    /\ cell # None
    /\ AcrossGates(cell)

\* the input projection built by the first step since the most recent reset
FirstProjection ==
    SymFullyConnected(cell_hist.since[1], cell.iW, cell.iB, cell.gates * cell.num_hidden,
                      step_name(cell.prefix, 0)
                          \o (IF cell.type = LNGRU_TYPE THEN <<"_i2h">> ELSE <<"i2h">>))

\* C15: under every interleaving of steps and resets of an across-gates LSTM
\* or GRU cell the assertion on _shape_fix never fails: the counter is -1
\* after construction and after each reset, and at every step the placeholder
\* is set and the one used is the one created by the first step since the
\* most recent reset.
C15_PlaceholderOfFirstStepSinceReset ==
    /\ cell_raised.kind # AssertionError
    /\ (cell # None /\ cell_call.op # "call") => cell.counter = -1
    /\ AcrossStepDone =>
          /\ cell.counter = Len(cell_hist.since) - 1
          /\ cell.shape_fix # None
          /\ cell.shape_fix = SymZerosLike(FirstProjection)
          /\ PlaceholdersOf(cell_out.output) = {cell.shape_fix}

\* the second step after a reset, its input differing from the first's
C15_Witness ==
    /\ AcrossStepDone
    /\ cell.type = LNGRU_TYPE
    /\ cell_hist.reset
    /\ cell.counter = 1
    /\ cell_hist.since[1] # cell_hist.since[2]
    /\ cell_raised = NoError
    /\ PlaceholdersOf(cell_out.output) = {SymZerosLike(FirstProjection)}

(***************************************************************************)
(* The residual precondition in the stacks get_stacked_rnn builds           *)
(***************************************************************************)
MaxInputDim == 4

StackBuilt == RnnDone /\ rnn_raised = NoError

\* the dimensionality of the output of entry p of the stack when the stack's
\* input has dimensionality d: a cell outputs num_hidden values, a dropout
\* wrapper as many as it is given
RECURSIVE OutputDimAt(_, _)
OutputDimAt(p, d) ==
    IF p = 0 THEN d
    ELSE CASE rnn[p].type = "DropoutCell" -> OutputDimAt(p - 1, d)
           [] rnn[p].type = "ResidualCell" -> rnn[p].base_cell.num_hidden
           [] OTHER -> rnn[p].num_hidden

InputDimAt(p, d) == OutputDimAt(p - 1, d)

\* the layer index an entry of the stack belongs to
LayerAt(p) == (p - 1) \div Stride

\* C16: in every stack built, every residual-wrapped cell sits at a layer
\* index > 0, its input (the previous layer's output, possibly through a
\* dropout wrapper) has dimensionality num_hidden and so has its output;
\* layer 0, whose input dimensionality is free, is never wrapped.
C16_ResidualPrecondition ==
    StackBuilt =>
        \A d \in 1..MaxInputDim, p \in 1..Len(rnn) :
            /\ rnn[p].type = "ResidualCell" =>
                  /\ LayerAt(p) > 0
                  /\ ParseD(rnn[p].base_cell.prefix[3]) = LayerAt(p)
                  /\ InputDimAt(p, d) = Config.num_hidden
                  /\ OutputDimAt(p, d) = Config.num_hidden
                  /\ InputDimAt(p, d) = OutputDimAt(p, d)
            /\ LayerAt(p) = 0 => rnn[p].type # "ResidualCell"

\* three residual layers with dropout between them, over an input whose
\* dimensionality differs from num_hidden
C16_Witness ==
    /\ StackBuilt
    /\ Config.residual
    /\ Config.dropout[1] > 0
    /\ Config.num_layers = 3
    /\ Config.num_hidden = 2
    /\ Len(rnn) = 6
    /\ rnn[1].type # "ResidualCell"
    /\ rnn[3].type = "ResidualCell"
    /\ rnn[5].type = "ResidualCell"
    /\ InputDimAt(1, MaxInputDim) = MaxInputDim
    /\ InputDimAt(3, MaxInputDim) = 2
    /\ InputDimAt(5, MaxInputDim) = 2
    /\ OutputDimAt(6, MaxInputDim) = 2

====
